---- MODULE Spec2Model ----
(***************************************************************************)
(* A model of PalindromeChecker(5).py: the character classifier, the       *)
(* hasher, the Left / Right cursors, the StreamProcessor and the paragraph *)
(* scanner.  A Python str is a sequence of code points; a code point is a  *)
(* TLA+ string naming it.  Positions are 0-based as in the source, so      *)
(* buffer[pos] of the source is buffer[pos + 1] here.                      *)
(***************************************************************************)
EXTENDS Integers, Sequences, FiniteSets, TLC

(* ------------------------------ bounds -------------------------------- *)

\* the longest stream of process_char calls fed to one engine between resets
MaxCalls == 3
\* the longest paragraph given to find_palindromes_in_paragraph
MaxText == 3

(* --------------------------- code points ------------------------------ *)

\* letters: a A s S and U+017F LATIN SMALL LETTER LONG S
Letters == {"a", "A", "s", "S", "long_s"}
\* the five Fitzpatrick skin-tone modifiers U+1F3FB..U+1F3FF (category Sk)
Tones == {"tone1", "tone2", "tone3", "tone4", "tone5"}
\* base emoji that have tone variants in the allow-list, and those that do not
TonedBases == {"smile", "thumbs", "hands", "wave"}
PlainBases == {"rocket", "star", "paw"}
\* U+0020 SPACE, U+0301 COMBINING ACUTE ACCENT (Mn), U+002C COMMA (Po)
Spaces == {" "}
Marks == {"acute"}
Symbols == {","}

CodePoints == Letters \cup Tones \cup TonedBases \cup PlainBases \cup Spaces \cup Marks \cup Symbols

\* ord(c)
Ord(c) ==
  CASE c = "a" -> 97 [] c = "A" -> 65 [] c = "s" -> 115 [] c = "S" -> 83
    [] c = "long_s" -> 383 [] c = " " -> 32 [] c = "acute" -> 769 [] c = "," -> 44
    [] c = "smile" -> 128522 [] c = "thumbs" -> 128077 [] c = "rocket" -> 128640
    [] c = "hands" -> 128588 [] c = "wave" -> 128075 [] c = "star" -> 127775
    [] c = "paw" -> 128062 [] c = "tone1" -> 127995 [] c = "tone2" -> 127996
    [] c = "tone3" -> 127997 [] c = "tone4" -> 127998 [] c = "tone5" -> 127999

\* str.isalpha(), str.isspace(), str.isupper() of a one-code-point string
IsAlpha(c) == c \in Letters
IsSpace(c) == c \in Spaces
IsUpper(c) == c \in {"A", "S"}
\* unicodedata.category(c) == 'Mn'
IsMn(c) == c \in Marks

\* str.lower() and str.upper() of a one-code-point string: U+017F is
\* lowercase, its uppercase is S, and the lowercase of S is s
Lower(c) == CASE c = "A" -> "a" [] c = "S" -> "s" [] OTHER -> c
Upper(c) == CASE c = "a" -> "A" [] c = "s" -> "S" [] c = "long_s" -> "S" [] OTHER -> c

\* unicodedata.normalize('NFC', s): every code point of the model is its own
\* canonical composition when it stands alone
NFC(s) == s

\* hash() of a str that is not a letter: Python's string hash, taken to be
\* free of collisions and disjoint from the code points of letters
StrHash(s) == 0 - Ord(s[1])

\* ALLOWED_EMOJIS: each entry is a str of one or two code points
ALLOWED_EMOJIS ==
  {<<b>> : b \in TonedBases \cup PlainBases} \cup {<<b, t>> : b \in TonedBases, t \in Tones}

(* ---------------------------- classifier ------------------------------ *)

\* valid_chars: <<>> is None, <<S>> is the collection S
NoValidChars == <<>>

\* is_emoticon(char)[1]
is_emoticon(char) ==
  IF IsAlpha(char) \/ IsSpace(char) THEN FALSE ELSE <<char>> \in ALLOWED_EMOJIS

\* clean that classifies the character before it consults valid_chars
cleanClassifiesFirst(char, valid_chars) ==
  IF IsSpace(char) \/ IsMn(char) THEN "false"
  ELSE IF ~IsAlpha(char) /\ ~is_emoticon(char) THEN "raise"
  ELSE IF valid_chars # NoValidChars
       THEN (IF char \in valid_chars[1] THEN "true" ELSE "false")
  ELSE "true"

\* clean(char, valid_chars): "true", "false", or "raise" (UnallowedCharacterError)
clean(char, valid_chars) ==
  IF IsSpace(char) \/ IsMn(char) THEN "false"
  ELSE IF valid_chars # NoValidChars
       THEN (IF char \in valid_chars[1] THEN "true" ELSE "false")
  ELSE IF IsAlpha(char) THEN "true"
  ELSE IF ~is_emoticon(char) THEN "raise"
  ELSE "true"

(* ------------------------------ hasher -------------------------------- *)

\* the cache is a function from raw code points to keys
EmptyCache == [c \in {} |-> 0]

\* hash_char without the lowercasing: the key of the raw character
hash_charCaseSensitive(c, cache) ==
  IF c \in DOMAIN cache THEN [key |-> cache[c], cache |-> cache]
  ELSE LET normalized == NFC(<<c>>)
           result == IF Len(normalized) > 0 /\ IsAlpha(normalized[1])
                     THEN Ord(normalized[1]) ELSE StrHash(normalized)
       IN  [key |-> result, cache |-> [x \in DOMAIN cache \cup {c} |-> IF x = c THEN result ELSE cache[x]]]

\* hash_char(c, cache): the key, and the cache afterwards
hash_char(c, cache) ==
  IF c \in DOMAIN cache THEN [key |-> cache[c], cache |-> cache]
  ELSE LET normalized == NFC(<<Lower(c)>>)
           result == IF Len(normalized) > 0 /\ IsAlpha(normalized[1])
                     THEN Ord(normalized[1]) ELSE StrHash(normalized)
       IN  [key |-> result, cache |-> [x \in DOMAIN cache \cup {c} |-> IF x = c THEN result ELSE cache[x]]]

(* ------------------------------ cursors ------------------------------- *)

\* a hash value or None
NoHash == [none |-> TRUE, key |-> 0]
SomeHash(k) == [none |-> FALSE, key |-> k]

\* Left.__init__ / Right.__init__: the buffer is the engine's, passed by reference
NewCursor(pos, direction, valid_chars) ==
  [pos |-> pos, direction |-> direction, valid_chars |-> valid_chars, valid |-> TRUE, chars |-> <<>>]

\* Left.set_char
set_char(self, char, was_capitalized, is_emoji, is_allowed) ==
  [self EXCEPT !.chars = Append(@, [char |-> char, was_capitalized |-> was_capitalized,
                                    is_emoji |-> is_emoji, is_allowed |-> is_allowed])]

\* Left.get_hash: the cursor afterwards, the hash, the cache afterwards, and
\* whether clean raised UnallowedCharacterError
LeftGetHash(self, buffer, hash_cache) ==
  IF ~self.valid \/ self.pos < 0 \/ self.pos >= Len(buffer)
  THEN [cur |-> [self EXCEPT !.valid = FALSE], hash |-> NoHash, cache |-> hash_cache, raised |-> FALSE]
  ELSE LET char == buffer[self.pos + 1]
           ok == clean(char, self.valid_chars)
       IN  IF ok = "raise"
           THEN [cur |-> self, hash |-> NoHash, cache |-> hash_cache, raised |-> TRUE]
           ELSE IF ok = "false"
           THEN [cur |-> [self EXCEPT !.valid = FALSE], hash |-> NoHash, cache |-> hash_cache, raised |-> FALSE]
           ELSE IF ~IsAlpha(char) /\ ~is_emoticon(char)
           THEN [cur |-> [self EXCEPT !.valid = FALSE], hash |-> NoHash, cache |-> hash_cache, raised |-> FALSE]
           ELSE LET h == hash_char(char, hash_cache)
                    stored == IF IsAlpha(char)
                              THEN set_char(self, char, IsUpper(char), FALSE, TRUE)
                              ELSE set_char(self, char, FALSE, is_emoticon(char), is_emoticon(char))
                IN  [cur |-> stored, hash |-> SomeHash(h.key), cache |-> h.cache, raised |-> FALSE]

\* Right.get_hash: as Left.get_hash, storing nothing
RightGetHash(self, buffer, hash_cache) ==
  IF ~self.valid \/ self.pos < 0 \/ self.pos >= Len(buffer)
  THEN [cur |-> [self EXCEPT !.valid = FALSE], hash |-> NoHash, cache |-> hash_cache, raised |-> FALSE]
  ELSE LET char == buffer[self.pos + 1]
           ok == clean(char, self.valid_chars)
       IN  IF ok = "raise"
           THEN [cur |-> self, hash |-> NoHash, cache |-> hash_cache, raised |-> TRUE]
           ELSE IF ok = "false"
           THEN [cur |-> [self EXCEPT !.valid = FALSE], hash |-> NoHash, cache |-> hash_cache, raised |-> FALSE]
           ELSE IF ~IsAlpha(char) /\ ~is_emoticon(char)
           THEN [cur |-> [self EXCEPT !.valid = FALSE], hash |-> NoHash, cache |-> hash_cache, raised |-> FALSE]
           ELSE LET h == hash_char(char, hash_cache)
                IN  [cur |-> self, hash |-> SomeHash(h.key), cache |-> h.cache, raised |-> FALSE]

\* the step of Left.advance: +1 for ltr and center-out, -1 for rtl
LeftStep(direction) == IF direction \in {"ltr", "center-out"} THEN 1 ELSE 0 - 1

\* the step of Right.advance: `self.pos -= 1 if ... else 1` subtracts the
\* whole conditional expression, which is 1 in both branches
RightStep(direction) == 0 - (IF direction \in {"ltr", "center-out"} THEN 1 ELSE 1)

\* Left.advance
LeftAdvance(self, buffer) ==
  LET pos == self.pos + LeftStep(self.direction)
  IN  [self EXCEPT !.pos = pos, !.valid = IF pos < 0 \/ pos >= Len(buffer) THEN FALSE ELSE @]

\* Right.advance
RightAdvance(self, buffer) ==
  LET pos == self.pos + RightStep(self.direction)
  IN  [self EXCEPT !.pos = pos, !.valid = IF pos < 0 \/ pos >= Len(buffer) THEN FALSE ELSE @]

(* --------------------------- StreamProcessor -------------------------- *)

\* error_msg: <<>> is None; the Character Error carries the offending code point
NoError == <<>>
InputError == <<"Input Error: Invalid character">>
CharacterError(char) == <<"Character Error: Unallowed character", char>>

\* a cursor attribute that is None
NoCursor == <<>>

\* StreamProcessor.__init__
NewProcessor(direction, valid_chars) ==
  [buffer |-> <<>>, direction |-> direction, valid_chars |-> valid_chars,
   left |-> NoCursor, right |-> NoCursor, center |-> 0 - 1, valid |-> TRUE,
   error_msg |-> NoError, stopped |-> FALSE, skipped_diacritics |-> 0,
   skipped_spaces |-> 0, hash_cache |-> EmptyCache]

\* reset that leaves the skip counters as they are
resetKeepsCounters(self) ==
  [self EXCEPT !.buffer = <<>>, !.valid = TRUE, !.error_msg = NoError, !.stopped = FALSE,
               !.hash_cache = EmptyCache, !.left = NoCursor, !.right = NoCursor, !.center = 0 - 1]

\* reset that leaves the stored error as it is
resetKeepsError(self) ==
  [self EXCEPT !.buffer = <<>>, !.valid = TRUE, !.stopped = FALSE,
               !.skipped_diacritics = 0, !.skipped_spaces = 0, !.hash_cache = EmptyCache,
               !.left = NoCursor, !.right = NoCursor, !.center = 0 - 1]

\* StreamProcessor.reset
reset(self) ==
  [self EXCEPT !.buffer = <<>>, !.valid = TRUE, !.error_msg = NoError, !.stopped = FALSE,
               !.skipped_diacritics = 0, !.skipped_spaces = 0, !.hash_cache = EmptyCache,
               !.left = NoCursor, !.right = NoCursor, !.center = 0 - 1]

\* what process_char returns
Ret(verdict, error_msg, chars) == [verdict |-> verdict, error_msg |-> error_msg, chars |-> chars]

\* the loop condition stopping one pair early
UncrossedOnePairEarly(direction, left, right) ==
  left.valid /\ right.valid /\
  ((direction \in {"ltr", "center-out"} /\ left.pos + 1 < right.pos) \/
   (direction = "rtl" /\ left.pos > right.pos + 1))

\* the loop condition of the validation pass
Uncrossed(direction, left, right) ==
  left.valid /\ right.valid /\
  ((direction \in {"ltr", "center-out"} /\ left.pos < right.pos) \/
   (direction = "rtl" /\ left.pos > right.pos))

\* the validation pass: how the loop ends ("done", "mismatch" or "raise") and
\* the cursors and the cache at that point
RECURSIVE Walk(_, _, _, _, _)

\* the loop body once both hashes are fetched: l and r are what Left.get_hash
\* and Right.get_hash gave
Compare(direction, buffer, right, l, r) ==
  IF r.raised
  THEN [exit |-> "raise", left |-> l.cur, right |-> r.cur, cache |-> r.cache,
        culprit |-> buffer[right.pos + 1]]
  ELSE IF l.hash.none \/ r.hash.none \/ l.hash.key # r.hash.key
  THEN [exit |-> "mismatch", left |-> l.cur, right |-> r.cur, cache |-> r.cache]
  ELSE Walk(direction, buffer, LeftAdvance(l.cur, buffer), RightAdvance(r.cur, buffer), r.cache)

\* the loop body once the left hash is fetched
FetchRight(direction, buffer, left, right, l) ==
  IF l.raised
  THEN [exit |-> "raise", left |-> l.cur, right |-> right, cache |-> l.cache,
        culprit |-> buffer[left.pos + 1]]
  ELSE Compare(direction, buffer, right, l, RightGetHash(right, buffer, l.cache))

Walk(direction, buffer, left, right, hash_cache) ==
  IF ~Uncrossed(direction, left, right)
  THEN [exit |-> "done", left |-> left, right |-> right, cache |-> hash_cache]
  ELSE FetchRight(direction, buffer, left, right, LeftGetHash(left, buffer, hash_cache))

\* the start positions of the two cursors for a buffer of n characters
LeftStart(direction, n) ==
  IF direction = "center-out" THEN (n \div 2) - (n \div 2)
  ELSE IF direction = "ltr" THEN 0 ELSE n - 1

RightStart(direction, n) ==
  IF direction = "center-out" THEN (n \div 2) + (n \div 2)
  ELSE IF direction = "ltr" THEN n - 1 ELSE 0

\* an argument of process_char: a str of code points, or something that is not a str
Str(cps) == [is_str |-> TRUE, cps |-> cps]
NotAStr == [is_str |-> FALSE, cps |-> <<>>]

\* the except clause without the latch: the error is returned, not stored
CaughtNotLatched(self, char) ==
  [self |-> [self EXCEPT !.valid = FALSE], ret |-> Ret(FALSE, CharacterError(char), <<>>)]

\* the except branch of process_char
Caught(self, char) ==
  [self |-> [self EXCEPT !.valid = FALSE, !.error_msg = CharacterError(char), !.stopped = TRUE],
   ret |-> Ret(FALSE, CharacterError(char), <<>>)]

\* the end of process_char where a mismatch hands back what the left cursor recorded
VerdictKeepsChars(s1, w) ==
  IF w.exit = "raise" THEN Caught(s1, w.culprit)
  ELSE IF w.exit = "mismatch"
  THEN [self |-> [s1 EXCEPT !.valid = FALSE], ret |-> Ret(FALSE, s1.error_msg, w.left.chars)]
  ELSE [self |-> [s1 EXCEPT !.valid = w.left.valid /\ w.right.valid, !.error_msg = NoError],
        ret |-> Ret(w.left.valid /\ w.right.valid, NoError, w.left.chars)]

\* the end of process_char: s1 is the engine with the buffer grown and the
\* cursors where the walk w left them
Verdict(s1, w) ==
  IF w.exit = "raise" THEN Caught(s1, w.culprit)
  ELSE IF w.exit = "mismatch"
  THEN [self |-> [s1 EXCEPT !.valid = FALSE], ret |-> Ret(FALSE, s1.error_msg, <<>>)]
  ELSE [self |-> [s1 EXCEPT !.valid = w.left.valid /\ w.right.valid, !.error_msg = NoError],
        ret |-> Ret(w.left.valid /\ w.right.valid, NoError,
                    IF w.left.valid /\ w.right.valid THEN w.left.chars ELSE <<>>)]

\* the engine once the walk w over the grown buffer is done
Walked(self, buffer, w) ==
  Verdict([self EXCEPT !.buffer = buffer,
                       !.center = IF self.direction = "center-out" THEN Len(buffer) \div 2 ELSE @,
                       !.left = <<w.left>>, !.right = <<w.right>>, !.hash_cache = w.cache], w)

\* fresh cursors at the start positions walk the grown buffer
Rewalk(self, buffer) ==
  Walked(self, buffer,
         Walk(self.direction, buffer,
              NewCursor(LeftStart(self.direction, Len(buffer)), self.direction, self.valid_chars),
              NewCursor(RightStart(self.direction, Len(buffer)), self.direction, self.valid_chars),
              self.hash_cache))

\* process_char from the append on: the buffer grows, fresh cursors walk it
Validate(self, char) == Rewalk(self, Append(self.buffer, char))

\* the try block without the branch that counts combining marks: clean
\* rejects the mark, and nothing is counted
ConsumeUncountedMarks(self, input) ==
  IF ~input.is_str \/ Len(input.cps) # 1
  THEN [self |-> [self EXCEPT !.valid = FALSE, !.error_msg = InputError, !.stopped = TRUE],
        ret |-> Ret(FALSE, InputError, <<>>)]
  ELSE LET char == input.cps[1]
       IN  IF IsSpace(char)
           THEN [self |-> [self EXCEPT !.skipped_spaces = @ + 1], ret |-> Ret(FALSE, NoError, <<>>)]
           ELSE IF clean(char, self.valid_chars) = "raise" THEN Caught(self, char)
           ELSE IF clean(char, self.valid_chars) = "false"
           THEN [self |-> self, ret |-> Ret(FALSE, NoError, <<>>)]
           ELSE Validate(self, char)

\* process_char inside the try block
Consume(self, input) ==
  IF ~input.is_str \/ Len(input.cps) # 1
  THEN [self |-> [self EXCEPT !.valid = FALSE, !.error_msg = InputError, !.stopped = TRUE],
        ret |-> Ret(FALSE, InputError, <<>>)]
  ELSE LET char == input.cps[1]
       IN  IF IsSpace(char)
           THEN [self |-> [self EXCEPT !.skipped_spaces = @ + 1], ret |-> Ret(FALSE, NoError, <<>>)]
           ELSE IF IsMn(char)
           THEN [self |-> [self EXCEPT !.skipped_diacritics = @ + 1], ret |-> Ret(FALSE, NoError, <<>>)]
           ELSE IF clean(char, self.valid_chars) = "raise" THEN Caught(self, char)
           ELSE IF clean(char, self.valid_chars) = "false"
           THEN [self |-> self, ret |-> Ret(FALSE, NoError, <<>>)]
           ELSE Validate(self, char)

\* process_char without the early return of a Stopped engine
process_charWhileStopped(self, input, auto_reset) ==
  Consume(IF self.stopped /\ auto_reset THEN reset(self) ELSE self, input)

\* process_char whose auto-reset only clears the Stopped flag and the error
process_charAutoKeepsStream(self, input, auto_reset) ==
  IF self.stopped /\ ~auto_reset
  THEN [self |-> self, ret |-> Ret(FALSE, self.error_msg, <<>>)]
  ELSE Consume([self EXCEPT !.stopped = FALSE, !.error_msg = NoError], input)

\* StreamProcessor.process_char: the engine afterwards and the returned triple
process_char(self, input, auto_reset) ==
  IF self.stopped /\ ~auto_reset
  THEN [self |-> self, ret |-> Ret(FALSE, self.error_msg, <<>>)]
  ELSE Consume(IF self.stopped THEN reset(self) ELSE self, input)

(* ----------------------------- renderer ------------------------------- *)

\* is_empty without the test for a string of spaces only
is_emptyLengthOnly(s) == Len(s) = 0

\* is_empty(s)
is_empty(s) == Len(s) = 0 \/ \A k \in 1..Len(s) : IsSpace(s[k])

\* has_valid_chars(s): any(clean(c) for c in s), which stops at the first
\* true and lets the first UnallowedCharacterError through
RECURSIVE has_valid_chars(_)
has_valid_chars(s) ==
  IF s = <<>> THEN "false"
  ELSE LET ok == clean(Head(s), NoValidChars)
       IN  IF ok = "false" THEN has_valid_chars(Tail(s)) ELSE ok

\* len([c for c in word if clean(c)]), or -1 when clean raises
RECURSIVE CountClean(_)
CountClean(word) ==
  IF word = <<>> THEN 0
  ELSE LET ok == clean(Head(word), NoValidChars)
           rest == CountClean(Tail(word))
       IN  IF ok = "raise" \/ rest < 0 THEN 0 - 1
           ELSE IF ok = "true" THEN rest + 1 ELSE rest

Reverse(s) == [k \in 1..Len(s) |-> s[Len(s) + 1 - k]]

\* the display form of one recorded character
DisplayChar(e) ==
  IF e.is_emoji THEN e.char
  ELSE IF e.was_capitalized /\ IsAlpha(e.char) THEN Upper(e.char)
  ELSE IF IsAlpha(e.char) THEN Lower(e.char) ELSE e.char

\* the marker shown in place of a word
Invalid == <<"INVALID">>

\* String_Output for a str word and no error message: the parts of the line it
\* formats, or raised when clean lets UnallowedCharacterError through
String_Output(word, result, direction, chars, streaming, skipped_diacritics, skipped_spaces) ==
  LET hv == IF is_empty(word) THEN "false" ELSE has_valid_chars(word)
      is_valid_input == hv = "true"
      half_stack == chars
      mirrored == IF Len(half_stack) = 1 THEN half_stack
                  ELSE SubSeq(half_stack \o Reverse(half_stack), 1, 2 * Len(half_stack) - 1)
      display_chars == [k \in 1..Len(mirrored) |-> DisplayChar(mirrored[k])]
      display_word == IF is_valid_input /\ chars # <<>> /\ result
                      THEN (IF direction \in {"ltr", "center-out"} THEN display_chars
                            ELSE Reverse(display_chars))
                      ELSE IF is_valid_input /\ ~result THEN word ELSE Invalid
      status == IF result THEN "Valid palindrome"
                ELSE IF streaming /\ is_valid_input THEN "Building palindrome"
                ELSE "Not a palindrome"
      valid_chars == IF is_valid_input THEN CountClean(word) ELSE 0
  IN  IF hv = "raise" \/ valid_chars < 0
      THEN [raised |-> TRUE]
      ELSE [raised |-> FALSE, display_word |-> display_word, result |-> result, status |-> status,
            direction |-> direction, valid_chars |-> valid_chars, show_valid_chars |-> result,
            skipped_diacritics |-> skipped_diacritics, skipped_spaces |-> skipped_spaces]

(* ------------------------------ scanner ------------------------------- *)

\* the inner loop of the scan: a processor fed the characters of a substring
\* until a call returns a false verdict
RECURSIVE FeedSubstring(_, _, _)

\* the loop body once process_char has returned r
FedOne(r, rest) ==
  IF ~r.ret.verdict THEN [processor |-> r.self, result |-> FALSE, chars_out |-> <<>>]
  ELSE FeedSubstring(r.self, rest, r.ret.chars)

FeedSubstring(self, substring, chars_out) ==
  IF substring = <<>> THEN [processor |-> self, result |-> TRUE, chars_out |-> chars_out]
  ELSE FedOne(process_char(self, Str(<<Head(substring)>>), FALSE), Tail(substring))

\* the two loops over i and j for one valid sequence, from (i0, j0) on: the
\* entries appended to found, or raised when String_Output raises
RECURSIVE CheckSubstrings(_, _, _, _, _, _, _, _)

\* the body of the inner loop with offsets relative to the sequence, its
\* start in the paragraph left out
RecordRelativeOffsets(direction, valid_chars, min_length, start, sequence, i0, j0, found, output) ==
  IF output.raised THEN [raised |-> TRUE, found |-> found]
  ELSE CheckSubstrings(direction, valid_chars, min_length, start, sequence, i0, j0 + 1,
                       Append(found, [palindrome |-> SubSeq(sequence, i0 + 1, j0 + 1),
                                      start_pos |-> i0, end_pos |-> j0,
                                      output |-> output]))

\* the body of the inner loop for a palindrome: output is what String_Output gave
Record(direction, valid_chars, min_length, start, sequence, i0, j0, found, output) ==
  IF output.raised THEN [raised |-> TRUE, found |-> found]
  ELSE CheckSubstrings(direction, valid_chars, min_length, start, sequence, i0, j0 + 1,
                       Append(found, [palindrome |-> SubSeq(sequence, i0 + 1, j0 + 1),
                                      start_pos |-> start + i0, end_pos |-> start + j0,
                                      output |-> output]))

\* the body of the inner loop once the substring is fed to a new processor
Checked(direction, valid_chars, min_length, start, sequence, i0, j0, found, fed) ==
  IF ~fed.result
  THEN CheckSubstrings(direction, valid_chars, min_length, start, sequence, i0, j0 + 1, found)
  ELSE Record(direction, valid_chars, min_length, start, sequence, i0, j0, found,
              String_Output(SubSeq(sequence, i0 + 1, j0 + 1), fed.result, direction, fed.chars_out,
                            FALSE, fed.processor.skipped_diacritics, fed.processor.skipped_spaces))

CheckSubstrings(direction, valid_chars, min_length, start, sequence, i0, j0, found) ==
  IF i0 >= Len(sequence) THEN [raised |-> FALSE, found |-> found]
  ELSE IF j0 >= Len(sequence)
  THEN CheckSubstrings(direction, valid_chars, min_length, start, sequence, i0 + 1, i0 + 1, found)
  ELSE IF j0 - i0 + 1 < min_length
  THEN CheckSubstrings(direction, valid_chars, min_length, start, sequence, i0, j0 + 1, found)
  ELSE Checked(direction, valid_chars, min_length, start, sequence, i0, j0, found,
               FeedSubstring(NewProcessor(direction, valid_chars),
                             SubSeq(sequence, i0 + 1, j0 + 1), <<>>))

\* the loop of stream_palindrome without the rendering: a processor fed the
\* inputs one after another, and what each call returned
RECURSIVE Feed(_, _, _)

\* the loop body once process_char has returned r
FedInput(r, rest, returned) == Feed(r.self, rest, Append(returned, r.ret))

Feed(self, inputs, returned) ==
  IF inputs = <<>> THEN [self |-> self, rets |-> returned]
  ELSE FedInput(process_char(self, Head(inputs), FALSE), Tail(inputs), returned)

stream_palindrome(inputs, direction, valid_chars) ==
  Feed(NewProcessor(direction, valid_chars), inputs, <<>>)

(* ------------------------- the streaming machine ---------------------- *)

VARIABLES
  processor,   \* the StreamProcessor under test
  ret,         \* what its last process_char call returned
  calls,       \* the arguments of the calls since it was constructed or last reset
  rets,        \* what those calls returned
  resetFrom,   \* "none", or the state the last reset found: "active" / "stopped" (reset()), "auto" (auto_reset)
  paragraph,   \* the paragraph argument of find_palindromes_in_paragraph
  args,        \* its other arguments: direction, valid_chars, min_length
  pc,          \* where the scan is: "call", "split", "check", "returned", or the
               \* exception it raised; "stream" when nothing is scanning
  i,           \* the index of the scan's current loop
  current_sequence,
  start_pos,
  valid_sequences,
  palindromes

vars == <<processor, ret, calls, rets, resetFrom, paragraph, args, pc, i, current_sequence,
          start_pos, valid_sequences, palindromes>>

streamVars == <<processor, ret, calls, rets, resetFrom>>

scanVars == <<paragraph, args, pc, i, current_sequence, start_pos, valid_sequences, palindromes>>

Directions == {"ltr", "rtl", "center-out"}

\* the restricted alphabets an engine is constructed with: none, or one that
\* holds a letter and a symbol
Alphabets == {NoValidChars, <<{"a", ","}>>}

\* the code points streamed to an engine
StreamChars == {"a", "s", "S", "long_s", "rocket", "star", " ", "acute", ",", "tone1"}

\* the arguments of process_char: one-code-point strings, a two-code-point
\* allow-listed emoji, and a value that is not a str
StreamInputs == {Str(<<c>>) : c \in StreamChars} \cup {Str(<<"thumbs", "tone1">>), NotAStr}

NoRet == Ret(FALSE, NoError, <<>>)

Init ==
  /\ \E d \in Directions, v \in Alphabets : processor = NewProcessor(d, v)
  /\ ret = NoRet
  /\ calls = <<>>
  /\ rets = <<>>
  /\ resetFrom = "none"
  /\ paragraph = Str(<<>>)
  /\ args = [direction |-> "ltr", valid_chars |-> NoValidChars, min_length |-> 1]
  /\ pc = "stream"
  /\ i = 0
  /\ current_sequence = <<>>
  /\ start_pos = 0
  /\ valid_sequences = <<>>
  /\ palindromes = <<>>

\* the call has returned r; fresh says that it reset the engine first
Returned(input, r, fresh) ==
  /\ processor' = r.self
  /\ ret' = r.ret
  /\ calls' = IF fresh THEN <<input>> ELSE Append(calls, input)
  /\ rets' = IF fresh THEN <<r.ret>> ELSE Append(rets, r.ret)
  /\ resetFrom' = IF fresh THEN "auto" ELSE resetFrom

\* a caller calls processor.process_char(input, auto_reset)
ProcessChar(input, auto_reset) ==
  /\ pc = "stream"
  /\ Len(calls) < MaxCalls
  /\ Returned(input, process_char(processor, input, auto_reset), processor.stopped /\ auto_reset)
  /\ UNCHANGED scanVars

\* a caller calls processor.reset()
Reset ==
  /\ pc = "stream"
  /\ processor' = reset(processor)
  /\ resetFrom' = IF processor.stopped THEN "stopped" ELSE "active"
  /\ calls' = <<>>
  /\ rets' = <<>>
  /\ UNCHANGED <<ret, scanVars>>

Next ==
  \/ \E input \in StreamInputs, auto_reset \in BOOLEAN : ProcessChar(input, auto_reset)
  \/ Reset

Spec == Init /\ [][Next]_vars

(* -------------------------- the scanning machine ---------------------- *)

\* the code points of the paragraphs scanned
ScanChars == {"a", "s", "S", " ", ",", "acute", "rocket"}

RECURSIVE StringsUpTo(_)
StringsUpTo(n) ==
  IF n = 0 THEN {<<>>}
  ELSE LET shorter == StringsUpTo(n - 1)
       IN  shorter \cup {Append(t, c) : t \in shorter, c \in ScanChars}

\* the paragraph arguments: strings, and a value that is not a str
ScanParagraphs == {Str(t) : t \in StringsUpTo(MaxText)} \cup {NotAStr}

InitScan ==
  /\ processor = NewProcessor("ltr", NoValidChars)
  /\ ret = NoRet
  /\ calls = <<>>
  /\ rets = <<>>
  /\ resetFrom = "none"
  /\ paragraph \in ScanParagraphs
  /\ args \in [direction : Directions, valid_chars : Alphabets, min_length : {1, 2}]
  /\ pc = "call"
  /\ i = 0
  /\ current_sequence = <<>>
  /\ start_pos = 0
  /\ valid_sequences = <<>>
  /\ palindromes = <<>>

\* find_palindromes_in_paragraph up to the first loop: the checks of the argument
ScanEnter ==
  /\ pc = "call"
  /\ pc' = IF ~paragraph.is_str THEN "InvalidInputError"
           ELSE IF is_empty(paragraph.cps) THEN "returned" ELSE "split"
  /\ UNCHANGED <<streamVars, paragraph, args, i, current_sequence, start_pos, valid_sequences,
                 palindromes>>

\* one round of the loop that extracts the valid sequences
ScanSplit ==
  /\ pc = "split"
  /\ i < Len(paragraph.cps)
  /\ LET char == paragraph.cps[i + 1]
     IN  IF clean(char, args.valid_chars) = "true"
         THEN /\ start_pos' = IF current_sequence = <<>> THEN i ELSE start_pos
              /\ current_sequence' = Append(current_sequence, char)
              /\ UNCHANGED valid_sequences
         ELSE /\ valid_sequences' = IF current_sequence # <<>>
                                    THEN Append(valid_sequences, <<start_pos, i - 1, current_sequence>>)
                                    ELSE valid_sequences
              /\ current_sequence' = <<>>
              /\ UNCHANGED start_pos
  /\ i' = i + 1
  /\ UNCHANGED <<streamVars, paragraph, args, pc, palindromes>>

\* after that loop: the sequence still open is closed at the end of the paragraph
ScanFlush ==
  /\ pc = "split"
  /\ i = Len(paragraph.cps)
  /\ valid_sequences' = IF current_sequence # <<>>
                        THEN Append(valid_sequences, <<start_pos, Len(paragraph.cps) - 1, current_sequence>>)
                        ELSE valid_sequences
  /\ pc' = "check"
  /\ i' = 0
  /\ UNCHANGED <<streamVars, paragraph, args, current_sequence, start_pos, palindromes>>

\* the substrings of one sequence are checked, with outcome r
SequenceChecked(r) ==
  /\ palindromes' = r.found
  /\ pc' = IF r.raised THEN "UnallowedCharacterError" ELSE pc

\* one round of the loop over the valid sequences: every substring of one sequence
ScanCheck ==
  /\ pc = "check"
  /\ i < Len(valid_sequences)
  /\ SequenceChecked(CheckSubstrings(args.direction, args.valid_chars, args.min_length,
                                      valid_sequences[i + 1][1], valid_sequences[i + 1][3],
                                      0, 0, palindromes))
  /\ i' = i + 1
  /\ UNCHANGED <<streamVars, paragraph, args, current_sequence, start_pos, valid_sequences>>

\* return palindromes
ScanReturn ==
  /\ pc = "check"
  /\ i = Len(valid_sequences)
  /\ pc' = "returned"
  /\ UNCHANGED <<streamVars, paragraph, args, i, current_sequence, start_pos, valid_sequences,
                 palindromes>>

NextScan == ScanEnter \/ ScanSplit \/ ScanFlush \/ ScanCheck \/ ScanReturn

SpecScan == InitScan /\ [][NextScan]_vars

(* ------------------------------ properties ---------------------------- *)

\* the comparison key the specification gives a character: the case-folded
\* letter, or the emoji itself
KeyOf(c) == IF IsAlpha(c) THEN Lower(c) ELSE c

\* s reads the same forwards and backwards under the comparison key
ReadsSame(s) == \A k \in 1..Len(s) : KeyOf(s[k]) = KeyOf(s[Len(s) + 1 - k])

\* an input that is one letter or one allow-listed emoji
IsAccepted(input) ==
  /\ input.is_str
  /\ Len(input.cps) = 1
  /\ (IsAlpha(input.cps[1]) \/ input.cps \in ALLOWED_EMOJIS)

AllAccepted(inputs) == \A k \in 1..Len(inputs) : IsAccepted(inputs[k])

CharsOf(inputs) == [k \in 1..Len(inputs) |-> inputs[k].cps[1]]

Unrestricted == processor.valid_chars = NoValidChars

\* C1: under ltr with no restricted alphabet, on a stream of accepted
\* characters the verdict after each character is true exactly when the buffer
\* so far reads the same forwards and backwards under the comparison key, and
\* a false verdict does not stop the engine.
C1_LtrVerdictIsPalindrome ==
  (processor.direction = "ltr" /\ Unrestricted /\ AllAccepted(calls)) =>
    /\ processor.buffer = CharsOf(calls)
    /\ \A k \in 1..Len(calls) : rets[k].verdict = ReadsSame(SubSeq(CharsOf(calls), 1, k))
    /\ ~processor.stopped

\* a mismatch (a, s) answered false, and the next append (a, s, a) answered true
C1_Witness ==
  /\ processor.direction = "ltr" /\ Unrestricted /\ AllAccepted(calls)
  /\ Len(calls) = 3
  /\ ~rets[2].verdict
  /\ rets[3].verdict
  /\ KeyOf(processor.buffer[1]) # KeyOf(processor.buffer[2])

\* C2: the final verdict of streaming S under ltr equals the final verdict of
\* streaming reverse(S) under rtl.
C2_DirectionSymmetry ==
  (processor.direction = "ltr" /\ Unrestricted /\ AllAccepted(calls) /\ calls # <<>>) =>
    LET mirrored == stream_palindrome(Reverse(calls), "rtl", NoValidChars)
    IN  ret.verdict = mirrored.rets[Len(calls)].verdict

\* C3: a center-out engine returns the same verdict as an ltr engine after
\* every appended character.
C3_CenterOutIsLtr ==
  (processor.direction = "center-out" /\ Unrestricted /\ AllAccepted(calls)) =>
    LET ltr == stream_palindrome(calls, "ltr", NoValidChars)
    IN  \A k \in 1..Len(calls) : rets[k].verdict = ltr.rets[k].verdict

\* C4: the first accepted character given to a fresh engine is answered with
\* verdict true, no error, and exactly that one character recorded.
C4_SingleCharacterRecorded ==
  (Len(calls) = 1 /\ IsAccepted(calls[1]) /\ Unrestricted) =>
    /\ ret.verdict
    /\ ret.error_msg = NoError
    /\ Len(ret.chars) = 1
    /\ ret.chars[1].char = calls[1].cps[1]

\* the scan returned, for a str paragraph scanned ltr with no restricted alphabet
ReturnedLtr ==
  pc = "returned" /\ paragraph.is_str /\ args.direction = "ltr" /\ args.valid_chars = NoValidChars

IsAcceptedChar(c) == IsAlpha(c) \/ <<c>> \in ALLOWED_EMOJIS

\* palindromes holds an entry for the paragraph's positions a..b (1-based)
Reported(a, b) ==
  \E k \in 1..Len(palindromes) :
    palindromes[k].start_pos = a - 1 /\ palindromes[k].end_pos = b - 1

\* C5: the scan (ltr, no restricted alphabet) returns an entry for every
\* contiguous range of accepted characters that is at least min_length long
\* and reads the same forwards and backwards under the comparison key.
C5_ScannerComplete ==
  ReturnedLtr =>
    \A a \in 1..Len(paragraph.cps), b \in 1..Len(paragraph.cps) :
      ( /\ a <= b
        /\ b - a + 1 >= args.min_length
        /\ \A k \in a..b : IsAcceptedChar(paragraph.cps[k])
        /\ ReadsSame(SubSeq(paragraph.cps, a, b)) ) => Reported(a, b)

\* the positions of the paragraph's letters
LetterPositions == {k \in 1..Len(paragraph.cps) : IsAlpha(paragraph.cps[k])}

RECURSIVE LettersOf(_)
LettersOf(t) ==
  IF t = <<>> THEN <<>>
  ELSE IF IsAlpha(Head(t)) THEN <<Head(t)>> \o LettersOf(Tail(t)) ELSE LettersOf(Tail(t))

Min(S) == CHOOSE x \in S : \A y \in S : x <= y
Max(S) == CHOOSE x \in S : \A y \in S : x >= y

\* C6: when the letters of a text of letters, whitespace and punctuation,
\* with whitespace or punctuation between them, read the same forwards and
\* backwards and are at least min_length many, the scan returns an entry that
\* covers the whole letter sequence.
C6_SkipsInsideCandidate ==
  ( /\ ReturnedLtr
    /\ \A k \in 1..Len(paragraph.cps) : paragraph.cps[k] \in Letters \cup Spaces \cup Symbols
    /\ Len(LettersOf(paragraph.cps)) >= args.min_length
    /\ LetterPositions # {}
    /\ ReadsSame(LettersOf(paragraph.cps))
    /\ \E k \in Min(LetterPositions)..Max(LetterPositions) : ~IsAlpha(paragraph.cps[k]) )
  => \E k \in 1..Len(palindromes) :
       /\ palindromes[k].start_pos <= Min(LetterPositions) - 1
       /\ palindromes[k].end_pos >= Max(LetterPositions) - 1

\* C7: a process_char call with auto_reset false on a Stopped engine returns
\* (false, the stored error, []) and changes nothing of the engine; a step
\* that leaves Stopped is a reset or an auto_reset call.
C7_StoppedIsTerminal ==
  [][processor.stopped =>
       /\ (\E input \in StreamInputs : ProcessChar(input, FALSE)) =>
            /\ processor' = processor
            /\ ret' = Ret(FALSE, processor.error_msg, <<>>)
       /\ ~processor'.stopped =>
            (Reset \/ \E input \in StreamInputs : ProcessChar(input, TRUE))]_vars

\* a call made on a Stopped engine without auto_reset: the call before it had
\* already returned the error
C7_Witness ==
  /\ processor.stopped
  /\ Len(rets) >= 2
  /\ rets[Len(rets) - 1].error_msg # NoError
  /\ ret = Ret(FALSE, processor.error_msg, <<>>)

\* C8: after reset, replaying a sequence of calls gives the results, the
\* buffer and the skip counters that a freshly constructed engine with the same
\* direction and restricted alphabet gives.
C8_ResetThenReplay ==
  resetFrom \in {"active", "stopped"} =>
    LET fresh == stream_palindrome(calls, processor.direction, processor.valid_chars)
    IN  /\ rets = fresh.rets
        /\ processor.buffer = fresh.self.buffer
        /\ processor.skipped_diacritics = fresh.self.skipped_diacritics
        /\ processor.skipped_spaces = fresh.self.skipped_spaces
        /\ processor.stopped = fresh.self.stopped
        /\ processor.error_msg = fresh.self.error_msg

\* a Stopped engine was reset and has since buffered and skipped characters
C8_Witness ==
  /\ resetFrom = "stopped"
  /\ Len(calls) = 3
  /\ processor.buffer # <<>>
  /\ processor.skipped_spaces + processor.skipped_diacritics > 0

\* the calls are accepted letters and combining marks only
IsMark(input) == input.is_str /\ Len(input.cps) = 1 /\ IsMn(input.cps[1])

IsAcceptedLetter(input) ==
  /\ input.is_str
  /\ Len(input.cps) = 1
  /\ IsAlpha(input.cps[1])
  /\ clean(input.cps[1], processor.valid_chars) = "true"

RECURSIVE WithoutMarks(_)
WithoutMarks(inputs) ==
  IF inputs = <<>> THEN <<>>
  ELSE IF IsMark(Head(inputs)) THEN WithoutMarks(Tail(inputs))
  ELSE <<Head(inputs)>> \o WithoutMarks(Tail(inputs))

RECURSIVE RetsWithoutMarks(_, _)
RetsWithoutMarks(inputs, returned) ==
  IF inputs = <<>> THEN <<>>
  ELSE IF IsMark(Head(inputs)) THEN RetsWithoutMarks(Tail(inputs), Tail(returned))
  ELSE <<Head(returned)>> \o RetsWithoutMarks(Tail(inputs), Tail(returned))

\* C9: on a stream of accepted letters with combining marks put in, the
\* buffer and the verdict of every letter call are those of the stream without
\* the marks, every mark adds exactly one to the skipped-diacritics counter,
\* and the skipped-whitespace counter is left alone.
C9_DiacriticTransparency ==
  (\A k \in 1..Len(calls) : IsMark(calls[k]) \/ IsAcceptedLetter(calls[k])) =>
    LET bare == stream_palindrome(WithoutMarks(calls), processor.direction, processor.valid_chars)
        kept == RetsWithoutMarks(calls, rets)
    IN  /\ processor.buffer = bare.self.buffer
        /\ Len(kept) = Len(bare.rets)
        /\ \A k \in 1..Len(kept) : kept[k].verdict = bare.rets[k].verdict
        /\ processor.skipped_diacritics = Len(calls) - Len(WithoutMarks(calls))
        /\ processor.skipped_spaces = bare.self.skipped_spaces
        /\ ~processor.stopped

\* a mark between two letters, the stream ending with verdict true
C9_Witness ==
  /\ Len(calls) = 3
  /\ IsAcceptedLetter(calls[1]) /\ IsMark(calls[2]) /\ IsAcceptedLetter(calls[3])
  /\ ret.verdict
  /\ processor.skipped_diacritics = 1

\* the other case of a letter: c.lower() of an uppercase letter, c.upper() otherwise
SwapCase(c) == IF IsUpper(c) THEN Lower(c) ELSE Upper(c)

\* a letter whose other case has the same lowercase form
CaseRoundTrips(c) == Lower(SwapCase(c)) = Lower(c)

\* the streams that differ from inputs in the case of some of the letters:
\* of any letters, or only of those whose case round-trips
Recased(inputs, roundTripsOnly) ==
  {t \in [1..Len(inputs) -> {Str(<<c>>) : c \in Letters}] :
     \A k \in 1..Len(inputs) :
        \/ t[k] = inputs[k]
        \/ /\ roundTripsOnly => CaseRoundTrips(inputs[k].cps[1])
           /\ t[k] = Str(<<SwapCase(inputs[k].cps[1])>>)}

AllLetters(inputs) ==
  \A k \in 1..Len(inputs) :
    inputs[k].is_str /\ Len(inputs[k].cps) = 1 /\ IsAlpha(inputs[k].cps[1])

SameVerdicts(t) ==
  LET other == stream_palindrome(t, processor.direction, NoValidChars)
  IN  \A k \in 1..Len(calls) : other.rets[k].verdict = rets[k].verdict

\* every recorded flag says whether the recorded character is uppercase
FlagsSayUppercase ==
  \A k \in 1..Len(rets) : \A n \in 1..Len(rets[k].chars) :
    rets[k].chars[n].was_capitalized = IsUpper(rets[k].chars[n].char)

AllAllowListed(inputs) ==
  \A k \in 1..Len(inputs) : inputs[k].is_str /\ inputs[k].cps \in ALLOWED_EMOJIS

\* C11: every member of the emoji allow-list, the tone-modified forms
\* included, is accepted as one character; under ltr the same emoji streamed
\* twice ends with verdict true and two different emoji end with verdict false.
C11_AllowListClosure ==
  (processor.direction = "ltr" /\ Unrestricted /\ AllAllowListed(calls)) =>
    /\ Len(processor.buffer) = Len(calls)
    /\ ~processor.stopped
    /\ (Len(calls) = 2 /\ calls[1] = calls[2]) => ret.verdict
    /\ (Len(calls) = 2 /\ calls[1] # calls[2]) => ~ret.verdict

SameOutcome(r, f) ==
  /\ r.ret = f.ret
  /\ r.self.buffer = f.self.buffer
  /\ r.self.skipped_diacritics = f.self.skipped_diacritics
  /\ r.self.skipped_spaces = f.self.skipped_spaces
  /\ r.self.error_msg = f.self.error_msg
  /\ r.self.stopped = f.self.stopped

\* C13: process_char(c, auto_reset=True) on a Stopped engine returns what a
\* freshly constructed engine of the same direction and alphabet returns for
\* process_char(c), and leaves the same buffer, counters, error and flag.
C13_AutoResetIsFresh ==
  [][ \A input \in StreamInputs :
        (processor.stopped /\ ProcessChar(input, TRUE)) =>
          SameOutcome([self |-> processor', ret |-> ret'],
                      process_char(NewProcessor(processor.direction, processor.valid_chars),
                                   input, FALSE)) ]_vars

\* an auto-reset call has buffered its character as the first of a new stream
C13_Witness ==
  /\ resetFrom = "auto"
  /\ Len(calls) = 1
  /\ Len(processor.buffer) = 1
  /\ ret.verdict

\* an input that is not one code point, or one disallowed symbol: not a
\* letter, whitespace, combining mark or allow-listed emoji
IsFailure(input) ==
  \/ ~input.is_str
  \/ Len(input.cps) # 1
  \/ LET c == input.cps[1]
     IN  ~IsAlpha(c) /\ ~IsSpace(c) /\ ~IsMn(c) /\ <<c>> \notin ALLOWED_EMOJIS

\* C14: an Active engine with no restricted alphabet that receives a failure
\* input returns (False, a non-empty error, []) and becomes Stopped, with the
\* buffer and both skip counters unchanged; the call returns, it does not raise.
C14_FailuresLatchStopped ==
  [][ \A input \in StreamInputs, auto_reset \in BOOLEAN :
        (~processor.stopped /\ Unrestricted /\ IsFailure(input) /\ ProcessChar(input, auto_reset)) =>
          /\ ret' = Ret(FALSE, ret'.error_msg, <<>>)
          /\ ret'.error_msg # NoError
          /\ rets' = Append(rets, ret')
          /\ processor'.stopped
          /\ processor'.error_msg = ret'.error_msg
          /\ processor'.buffer = processor.buffer
          /\ processor'.skipped_diacritics = processor.skipped_diacritics
          /\ processor'.skipped_spaces = processor.skipped_spaces ]_vars

\* a stream with a buffered letter and a skipped space was stopped by a symbol
C14_Witness ==
  /\ Unrestricted
  /\ processor.stopped
  /\ processor.buffer # <<>>
  /\ processor.skipped_spaces > 0
  /\ Len(calls) = 3
  /\ calls[3] = Str(<<",">>)
  /\ rets[2].error_msg = NoError
  /\ ret.error_msg = CharacterError(",")

\* one code point that is neither whitespace nor a combining mark and is not
\* a member of the restricted alphabet
IsOutsideAlphabet(input) ==
  /\ input.is_str
  /\ Len(input.cps) = 1
  /\ ~IsSpace(input.cps[1])
  /\ ~IsMn(input.cps[1])
  /\ input.cps[1] \notin processor.valid_chars[1]

\* C15: an Active engine with a restricted alphabet that receives one
\* non-whitespace, non-mark character outside the alphabet, a disallowed symbol
\* included, returns (False, None, []) and is left exactly as it was.
C15_SilentRejection ==
  [][ \A input \in StreamInputs, auto_reset \in BOOLEAN :
        (/\ ~processor.stopped
         /\ ~Unrestricted
         /\ IsOutsideAlphabet(input)
         /\ ProcessChar(input, auto_reset)) =>
          /\ ret' = Ret(FALSE, NoError, <<>>)
          /\ processor' = processor
          /\ ~processor'.stopped
          /\ processor'.error_msg = NoError ]_vars

\* an Active engine with a restricted alphabet and a buffered character has
\* just been given a disallowed symbol outside the alphabet
C15_Witness ==
  /\ ~Unrestricted
  /\ ~processor.stopped
  /\ processor.buffer # <<>>
  /\ Len(calls) = 2
  /\ calls[2] = Str(<<"tone1">>)
  /\ ret = Ret(FALSE, NoError, <<>>)

\* C16: in every reachable state the stored error is non-empty exactly when
\* the engine is Stopped, and the last result of an engine that is not Stopped
\* after the call carries no error.
C16_ErrorIffStopped ==
  /\ (processor.error_msg # NoError) <=> processor.stopped
  /\ (~processor.stopped /\ rets # <<>>) => rets[Len(rets)].error_msg = NoError

\* after a reset of a Stopped engine, a second character mismatched the first
\* and the result carries no error
C16_Witness ==
  /\ resetFrom \in {"stopped", "auto"}
  /\ ~processor.stopped
  /\ processor.error_msg = NoError
  /\ Len(processor.buffer) = 2
  /\ Len(rets) = 2
  /\ ~rets[2].verdict
  /\ rets[2].error_msg = NoError

\* C17: the recorded characters a call returns are non-empty only if its
\* verdict is true and both cursors ended the pass valid with the window
\* exhausted; every false result carries no recorded characters.
C17_RecordedOnlyWhenTrue ==
  /\ \A k \in 1..Len(rets) : rets[k].chars # <<>> => rets[k].verdict
  /\ ret.chars # <<>> => ret.verdict
  /\ (rets # <<>> /\ ret.chars # <<>>) =>
       /\ processor.left # NoCursor /\ processor.right # NoCursor
       /\ processor.left[1].valid /\ processor.right[1].valid
       /\ processor.valid
       /\ ~Uncrossed(processor.direction, processor.left[1], processor.right[1])

\* a mismatch found after the left cursor had recorded a character returned
\* no recorded characters
C17_Witness ==
  /\ rets # <<>>
  /\ ~ret.verdict
  /\ ret.chars = <<>>
  /\ processor.left # NoCursor
  /\ processor.left[1].chars # <<>>
  /\ ~processor.stopped

\* the call takes the character: the engine is Active and the input is one
\* code point that the classifier accepts
Takes(input) ==
  /\ ~processor.stopped
  /\ input.is_str
  /\ Len(input.cps) = 1
  /\ clean(input.cps[1], processor.valid_chars) = "true"

\* C18: over process_char calls that do not reset, with or without a
\* restricted alphabet, every buffer element is a letter or an allow-listed
\* emoji, the buffer only grows at its end, by exactly the character of a call
\* that takes it, and every other call leaves it unchanged.
C18_BufferInvariant ==
  [][ \A input \in StreamInputs, auto_reset \in BOOLEAN :
        (~(processor.stopped /\ auto_reset) /\ ProcessChar(input, auto_reset)) =>
          /\ \A k \in 1..Len(processor'.buffer) : IsAcceptedChar(processor'.buffer[k])
          /\ Takes(input) => processor'.buffer = Append(processor.buffer, input.cps[1])
          /\ ~Takes(input) => processor'.buffer = processor.buffer ]_vars

\* the entry e lies in the paragraph, is at least min_length long, is the
\* paragraph's text between its offsets, holds accepted characters only and
\* reads the same forwards and backwards under the comparison key
SoundEntry(e) ==
  /\ 0 <= e.start_pos /\ e.start_pos <= e.end_pos /\ e.end_pos < Len(paragraph.cps)
  /\ e.end_pos - e.start_pos + 1 >= args.min_length
  /\ e.palindrome = SubSeq(paragraph.cps, e.start_pos + 1, e.end_pos + 1)
  /\ \A k \in 1..Len(e.palindrome) :
       ~IsSpace(e.palindrome[k]) /\ ~IsMn(e.palindrome[k]) /\ IsAcceptedChar(e.palindrome[k])
  /\ ReadsSame(e.palindrome)

\* C19: every entry the scan holds, for any paragraph, direction, alphabet and
\* min_length, has offsets inside the paragraph, spans at least min_length
\* characters, equals the paragraph's text between its offsets, lies inside
\* one run of accepted characters and is a palindrome under the comparison key.
C19_ScannerSound ==
  \A k \in 1..Len(palindromes) : SoundEntry(palindromes[k])

\* the scan has returned an entry of two characters that does not start at
\* the start of the paragraph
C19_Witness ==
  /\ pc = "returned"
  /\ \E k \in 1..Len(palindromes) :
       /\ palindromes[k].start_pos > 0
       /\ palindromes[k].end_pos > palindromes[k].start_pos
       /\ palindromes[k].palindrome[1] # palindromes[k].palindrome[2]

\* C20: the scan of a str paragraph, for every direction, alphabet and
\* min_length, never raises UnallowedCharacterError.
C20_ScanNeverAborts == pc # "UnallowedCharacterError"

====
